---- MODULE Spec2Model ----
(***************************************************************************)
(* Data classification and storage-eligibility engine of ai-locus-agent:   *)
(* backend/data_classifier.py (DataClassifier) and                         *)
(* backend/storage_manager.py (StorageManager, the local file backend).    *)
(* The records that backend/app.py hands to the store, calls of the        *)
(* storage manager that run on two request threads, and the cloud backend  *)
(* of backend/aws_storage_manager.py (AWSStorageManager) are modelled as   *)
(* well.                                                                   *)
(*                                                                         *)
(* Python strings are sequences of one-character strings, so that the      *)
(* substring scan of _contains_sensitive_data is computed, not assumed.    *)
(* An analysis record (a Python dict, insertion ordered) is a sequence of  *)
(* <<key, value>> pairs with distinct keys; a value is a record            *)
(* [kind, chars]: kind "str" (chars is the text), "num" or "none" (chars   *)
(* is the Python repr of the value).                                       *)
(***************************************************************************)
EXTENDS Integers, Sequences, FiniteSets, TLC

VARIABLES
    files,        \* storage_dir/<data_type>/<storage_id>.json : path -> document
    audit_logs,   \* storage_dir/audit_logs/audit_<date>.json  : date -> document
    clock,        \* the instant, in hours (UTC) since the model's epoch
    utc_offset,   \* the host's local time zone: local wall clock - UTC, in hours
    issued,       \* number of storage ids _generate_storage_id has produced
    origin,       \* history: storage id returned by store -> the record given to it
    failures,     \* number of backend failures injected so far
    last,         \* the last call: operation, arguments, injected failure, result
    calls,        \* the calls that run concurrently: thread -> position and locals
    table         \* the cloud backend's metadata table: storage id -> item

vars == <<files, audit_logs, clock, utc_offset, issued, origin, failures, last,
          calls, table>>

\* everything but the record of the last call
storage == <<files, audit_logs, clock, utc_offset, issued, origin, failures>>

----------------------------------------------------------------------------
(* String literals of the source.                                          *)

s_name == <<"n","a","m","e">>
s_address == <<"a","d","d","r","e","s","s">>
s_phone == <<"p","h","o","n","e">>
s_email == <<"e","m","a","i","l">>
s_nhs_number == <<"n","h","s","_","n","u","m","b","e","r">>
s_date_of_birth == <<"d","a","t","e","_","o","f","_","b","i","r","t","h">>
s_postcode == <<"p","o","s","t","c","o","d","e">>
s_full_name == <<"f","u","l","l","_","n","a","m","e">>

s_urgency_level == <<"u","r","g","e","n","c","y","_","l","e","v","e","l">>
s_care_level == <<"c","a","r","e","_","l","e","v","e","l">>
s_risk_factors == <<"r","i","s","k","_","f","a","c","t","o","r","s">>
s_recommendations == <<"r","e","c","o","m","m","e","n","d","a","t","i","o","n","s">>
s_confidence_score == <<"c","o","n","f","i","d","e","n","c","e","_","s","c","o","r","e">>

s_processing_time == <<"p","r","o","c","e","s","s","i","n","g","_","t","i","m","e">>
s_model_used == <<"m","o","d","e","l","_","u","s","e","d">>
s_timestamp == <<"t","i","m","e","s","t","a","m","p">>
s_analysis_id == <<"a","n","a","l","y","s","i","s","_","i","d">>
s_created_at == <<"c","r","e","a","t","e","d","_","a","t">>

s_data_hash == <<"d","a","t","a","_","h","a","s","h">>
s_storage_id == <<"s","t","o","r","a","g","e","_","i","d">>
s_classification == <<"c","l","a","s","s","i","f","i","c","a","t","i","o","n">>

\* self.sensitive_indicators
sensitive_indicators ==
    << s_name, s_address, s_phone, s_email, s_nhs_number,
       s_date_of_birth, s_postcode, s_full_name >>

\* clinical_fields of _is_clinical_output
clinical_fields ==
    { s_urgency_level, s_care_level, s_risk_factors,
      s_recommendations, s_confidence_score }

\* metadata_fields of _is_metadata
metadata_fields ==
    { s_processing_time, s_model_used, s_timestamp, s_analysis_id, s_created_at }

----------------------------------------------------------------------------
(* Python's str, repr and str.lower on the values of the model.            *)

\* str.lower(), one character
LowerChar(c) ==
    CASE c = "A" -> "a" [] c = "B" -> "b" [] c = "C" -> "c" [] c = "D" -> "d"
      [] c = "E" -> "e" [] c = "F" -> "f" [] c = "G" -> "g" [] c = "H" -> "h"
      [] c = "I" -> "i" [] c = "J" -> "j" [] c = "K" -> "k" [] c = "L" -> "l"
      [] c = "M" -> "m" [] c = "N" -> "n" [] c = "O" -> "o" [] c = "P" -> "p"
      [] c = "Q" -> "q" [] c = "R" -> "r" [] c = "S" -> "s" [] c = "T" -> "t"
      [] c = "U" -> "u" [] c = "V" -> "v" [] c = "W" -> "w" [] c = "X" -> "x"
      [] c = "Y" -> "y" [] c = "Z" -> "z" [] OTHER -> c

\* str.lower()
Lower(s) == [i \in 1..Len(s) |-> LowerChar(s[i])]

\* Python's `needle in hay` on strings
InStr(needle, hay) ==
    \E i \in 1..(Len(hay) - Len(needle) + 1) :
        SubSeq(hay, i, i + Len(needle) - 1) = needle

\* repr() of a key or a value, as str(dict) prints it
Repr(v) ==
    IF v.kind = "str" THEN <<"'">> \o v.chars \o <<"'">> ELSE v.chars

RECURSIVE ItemsStr(_)
\* the "'k': v, 'k2': v2" inside of str(dict)
ItemsStr(data) ==
    IF data = <<>> THEN <<>>
    ELSE LET item == <<"'">> \o data[1][1] \o <<"'", ":", " ">> \o Repr(data[1][2])
         IN  IF Len(data) = 1 THEN item
             ELSE item \o <<",", " ">> \o ItemsStr(Tail(data))

\* str(data) of a dict
DictStr(data) == <<"{">> \o ItemsStr(data) \o <<"}">>

\* the keys of a dict
Keys(data) == {data[i][1] : i \in 1..Len(data)}

\* `field in data`
HasKey(data, k) == k \in Keys(data)

NoneValue == [kind |-> "none", chars |-> <<"N","o","n","e">>]

\* dict.get(k): the value, or None
Get(data, k) ==
    IF HasKey(data, k)
    THEN data[CHOOSE i \in 1..Len(data) : data[i][1] = k][2]
    ELSE NoneValue

----------------------------------------------------------------------------
(* DataClassifier                                                          *)

\* a scan that compares the indicators with str(data) as it is printed
contains_sensitive_data_CaseSensitive(data) ==
    LET data_str == DictStr(data)
    IN  \E n \in 1..Len(sensitive_indicators) :
            InStr(sensitive_indicators[n], data_str)

\* DataClassifier._contains_sensitive_data
contains_sensitive_data(data) ==
    LET data_str == Lower(DictStr(data))
    IN  \E n \in 1..Len(sensitive_indicators) :
            InStr(sensitive_indicators[n], data_str)

\* a clinical-output test that gives way to the metadata fields
is_clinical_output_UnlessMetadata(data) ==
    /\ \E field \in clinical_fields : HasKey(data, field)
    /\ ~\E field \in metadata_fields : HasKey(data, field)

\* DataClassifier._is_clinical_output
is_clinical_output(data) == \E field \in clinical_fields : HasKey(data, field)

\* DataClassifier._is_metadata
is_metadata(data) == \E field \in metadata_fields : HasKey(data, field)

\* the classification of a record with patient identifiers
SensitiveClassification ==
    [ can_store |-> FALSE, data_type |-> "sensitive_patient_data",
      sensitivity_level |-> "high", retention_days |-> 0,
      requires_consent |-> TRUE, audit_required |-> TRUE,
      reason |-> "Contains sensitive patient information" ]

\* the classification of clinical analysis output
ClinicalClassification ==
    [ can_store |-> TRUE, data_type |-> "clinical_output",
      sensitivity_level |-> "low", retention_days |-> 30,
      requires_consent |-> FALSE, audit_required |-> TRUE,
      reason |-> "Clinical analysis results without patient identifiers" ]

\* the classification of system metadata
MetadataClassification ==
    [ can_store |-> TRUE, data_type |-> "analysis_metadata",
      sensitivity_level |-> "none", retention_days |-> 90,
      requires_consent |-> FALSE, audit_required |-> FALSE,
      reason |-> "System metadata for performance monitoring" ]

\* a default that keeps the record for a day
UnknownClassification_Storable ==
    [ can_store |-> TRUE, data_type |-> "unknown",
      sensitivity_level |-> "unknown", retention_days |-> 1,
      requires_consent |-> TRUE, audit_required |-> TRUE,
      reason |-> "Unknown data type - defaulting to no storage for safety" ]

\* the default of classify_analysis_data: "don't store if unsure"
UnknownClassification ==
    [ can_store |-> FALSE, data_type |-> "unknown",
      sensitivity_level |-> "unknown", retention_days |-> 0,
      requires_consent |-> TRUE, audit_required |-> TRUE,
      reason |-> "Unknown data type - defaulting to no storage for safety" ]

\* a classifier whose fallback is the metadata classification
classify_analysis_data_Permissive(analysis_result) ==
    IF contains_sensitive_data(analysis_result) THEN SensitiveClassification
    ELSE IF is_clinical_output(analysis_result) THEN ClinicalClassification
    ELSE MetadataClassification

\* DataClassifier.classify_analysis_data
classify_analysis_data(analysis_result) ==
    IF contains_sensitive_data(analysis_result) THEN SensitiveClassification
    ELSE IF is_clinical_output(analysis_result) THEN ClinicalClassification
    ELSE IF is_metadata(analysis_result) THEN MetadataClassification
    ELSE UnknownClassification

----------------------------------------------------------------------------
(* DataClassifier.create_safe_storage_data                                 *)

RECURSIVE Digits(_)
\* the decimal digits of a natural number
Digits(n) ==
    LET d == <<"0","1","2","3","4","5","6","7","8","9">>[(n % 10) + 1]
    IN  IF n < 10 THEN <<d>> ELSE Digits(n \div 10) \o <<d>>

\* datetime.isoformat() of a naive datetime: the wall-clock reading as text,
\* with no zone designator (the reading is in hours since the epoch)
IsoFormat(wall) ==
    [ kind |-> "str",
      chars |-> IF wall < 0 THEN <<"-">> \o Digits(0 - wall) ELSE Digits(wall) ]

DigitValue(c) ==
    CASE c = "0" -> 0 [] c = "1" -> 1 [] c = "2" -> 2 [] c = "3" -> 3
      [] c = "4" -> 4 [] c = "5" -> 5 [] c = "6" -> 6 [] c = "7" -> 7
      [] c = "8" -> 8 [] c = "9" -> 9

RECURSIVE ParseDigits(_)
ParseDigits(cs) ==
    IF Len(cs) = 1 THEN DigitValue(cs[1])
    ELSE 10 * ParseDigits(SubSeq(cs, 1, Len(cs) - 1)) + DigitValue(cs[Len(cs)])

\* datetime.fromisoformat(): the naive wall-clock reading the text denotes
FromIsoFormat(v) ==
    IF v.chars[1] = "-" THEN 0 - ParseDigits(Tail(v.chars)) ELSE ParseDigits(v.chars)

\* datetime.utcnow(): the UTC wall clock, as a naive datetime
UtcNow == clock

\* datetime.now(): the host's local wall clock, as a naive datetime
LocalNow == clock + utc_offset

\* DataClassifier._create_data_hash: SHA-256 of str(sorted(data.items())), kept
\* as the digest of the (order-independent) set of items
create_data_hash(data) ==
    [ kind |-> "sha256", of |-> {data[i] : i \in 1..Len(data)} ]

\* the fields create_safe_storage_data reads with analysis_result.get(...)
GetFields ==
    { s_analysis_id, s_processing_time, s_model_used,
      s_confidence_score, s_urgency_level, s_care_level }

\* the fields create_safe_storage_data copies `if ... in analysis_result`
IfPresentFields == { s_risk_factors, s_recommendations }

\* a builder that starts from a copy of the record
create_safe_storage_data_CopyAll(analysis_result, utcnow) ==
    LET keys == Keys(analysis_result) \cup {s_timestamp, s_data_hash}
        safe_data == [ k \in keys |->
                         IF k = s_timestamp THEN IsoFormat(utcnow)
                         ELSE IF k = s_data_hash THEN create_data_hash(analysis_result)
                         ELSE Get(analysis_result, k) ]
    IN  [ k \in {j \in keys : safe_data[j].kind # "none"} |-> safe_data[k] ]

\* DataClassifier.create_safe_storage_data, called at UTC time `utcnow`
create_safe_storage_data(analysis_result, utcnow) ==
    LET keys == GetFields \cup {s_timestamp, s_data_hash}
                    \cup {k \in IfPresentFields : HasKey(analysis_result, k)}
        safe_data == [ k \in keys |->
                         IF k = s_timestamp THEN IsoFormat(utcnow)
                         ELSE IF k = s_data_hash THEN create_data_hash(analysis_result)
                         ELSE Get(analysis_result, k) ]
    IN  [ k \in {j \in keys : safe_data[j].kind # "none"} |-> safe_data[k] ]

----------------------------------------------------------------------------
(* The analysis records the calls are given.                               *)

\* number of fields of an input record
MaxFields == 2

k_patient_name == <<"p","a","t","i","e","n","t","_","n","a","m","e">>
k_Email == <<"E","m","a","i","l">>
k_word_count == <<"w","o","r","d","_","c","o","u","n","t">>

InputKeys ==
    { k_patient_name, k_Email, k_word_count,
      s_urgency_level, s_risk_factors,
      s_model_used, s_timestamp, s_created_at }

InputValues ==
    { [kind |-> "str",  chars |-> <<"u","r","g","e","n","t">>],
      [kind |-> "str",  chars |-> <<"P","H","O","N","E"," ","1">>],
      [kind |-> "num",  chars |-> <<"0",".","8","9">>],
      NoneValue }

RecordsOfLen(n) ==
    { r \in [1..n -> InputKeys \X InputValues] :
        \A i, j \in 1..n : r[i][1] = r[j][1] => i = j }

Records == UNION { RecordsOfLen(n) : n \in 0..MaxFields }

----------------------------------------------------------------------------
(* StorageManager: the local file backend.                                 *)
(*                                                                         *)
(* A file holds a document: [complete |-> TRUE, data |-> d] after a        *)
(* json.dump that ran to its end, [complete |-> FALSE] when open(path,'w') *)
(* truncated or created the file and the dump did not finish; json.load    *)
(* raises on the latter.  Every handler is one action; a backend failure   *)
(* is an input of the action, naming the step of the handler that raises.  *)

\* hours in timedelta(days=1)
HoursPerDay == 24

\* number of storage ids _generate_storage_id produces
MaxIds == 2

\* number of entries the audit logs hold, over all days
MaxAudit == 2

\* the last instant of the model, in hours
MaxClock == 2161

\* the storage ids: "<%Y%m%d_%H%M%S>_<8 hex digits of a uuid4>", numbered
\* in the order they are generated
StorageIds == 1..MaxIds

\* an identifier no store generates ("fake_12345")
FakeId == MaxIds + 1

\* `return None` of store_analysis_result
NoId == 0

\* the directories retrieve and delete search, in their order
Partitions == <<"clinical_output", "analysis_metadata">>

\* a policy table that keeps every storable category for 90 days
retention_policies_Uniform ==
    [ clinical_output |-> 90, analysis_metadata |-> 90,
      sensitive_patient_data |-> 0, unknown |-> 0 ]

\* self.retention_policies
retention_policies ==
    [ clinical_output |-> 30, analysis_metadata |-> 90,
      sensitive_patient_data |-> 0, unknown |-> 0 ]

EmptyMap == [x \in {} |-> x]

\* the mapping m with key k set to v
Put(m, k, v) == [x \in DOMAIN m \cup {k} |-> IF x = k THEN v ELSE m[x]]

\* the mapping m without key k
Remove(m, k) == [x \in DOMAIN m \ {k} |-> m[x]]

\* json.dump(data, f) that completes
JsonDump(data) == [complete |-> TRUE, data |-> data]

\* the file after open(path, 'w') and a dump that raised
Torn == [complete |-> FALSE]

\* StorageManager._get_storage_path
get_storage_path(data_type, storage_id) == <<data_type, storage_id>>

\* storage_path.exists()
Exists(path) == path \in DOMAIN files

\* StorageManager._generate_storage_id: the timestamp and uuid4 prefix give an
\* identifier no earlier call has produced
generate_storage_id == issued + 1

\* an embedded classification that takes its retention from the wrong policy
EmbeddedClassification_WrongRetention(classification) ==
    [ kind |-> "dict",
      data_type |-> classification.data_type,
      sensitivity_level |-> classification.sensitivity_level,
      retention_days |-> retention_policies["analysis_metadata"],
      audit_required |-> classification.audit_required ]

\* the "classification" entry store_analysis_result adds to safe_data
EmbeddedClassification(classification) ==
    [ kind |-> "dict",
      data_type |-> classification.data_type,
      sensitivity_level |-> classification.sensitivity_level,
      retention_days |-> classification.retention_days,
      audit_required |-> classification.audit_required ]

\* safe_data as store_analysis_result completes it
StoredData(analysis_result, classification, storage_id) ==
    LET safe_data == create_safe_storage_data(analysis_result, UtcNow)
    IN  Put(Put(safe_data, s_storage_id, [kind |-> "id", id |-> storage_id]),
            s_classification, EmbeddedClassification(classification))

\* the audit file of today, by the local date: audit_<%Y%m%d>.json
AuditFile == LocalNow \div HoursPerDay

\* the entries of the audit file of a day: none when the file does not parse
EntriesOf(logs, day) ==
    IF day \in DOMAIN logs /\ logs[day].complete THEN logs[day].data ELSE <<>>

\* number of entries in the audit logs
AuditCount(logs) ==
    LET RECURSIVE Sum(_)
        Sum(S) == IF S = {} THEN 0
                  ELSE LET d == CHOOSE x \in S : TRUE
                       IN  (IF logs[d].complete THEN Len(logs[d].data) ELSE 0)
                             + Sum(S \ {d})
    IN  Sum(DOMAIN logs)

\* the steps of _log_audit_trail that can raise
AuditFailures == {"audit_read", "audit_open", "audit_dump"}

\* StorageManager._log_audit_trail: whether it raises, and the audit logs it leaves
log_audit_trail(storage_id, action, data_type, fail) ==
    LET audit_entry == [ timestamp |-> IsoFormat(LocalNow),
                         storage_id |-> storage_id,
                         action |-> action,
                         data_type |-> data_type ]
        exists == AuditFile \in DOMAIN audit_logs
    IN  IF exists /\ (fail = "audit_read" \/ ~audit_logs[AuditFile].complete)
        THEN [raised |-> TRUE, logs |-> audit_logs]
        ELSE IF fail = "audit_open"
        THEN [raised |-> TRUE, logs |-> audit_logs]
        ELSE IF fail = "audit_dump"
        THEN [raised |-> TRUE, logs |-> Put(audit_logs, AuditFile, Torn)]
        ELSE LET audit_log == IF exists THEN audit_logs[AuditFile].data ELSE <<>>
             IN  [ raised |-> FALSE,
                   logs |-> Put(audit_logs, AuditFile,
                                JsonDump(Append(audit_log, audit_entry))) ]

\* number of backend failures injected in a run
MaxFailures == 1

\* a backend failure is injected
Fails == failures < MaxFailures /\ failures' = failures + 1

\* a failure of _log_audit_trail is injected at a step it reaches (it reads
\* the audit file only when the file exists), or none is
AuditFails(fail) ==
    IF fail = "none" THEN UNCHANGED failures
    ELSE /\ Fails
         /\ fail = "audit_read" => AuditFile \in DOMAIN audit_logs

\* the audit logs are capped at MaxAudit entries
AuditRoom(audit) == ~audit.raised => AuditCount(audit_logs) < MaxAudit

\* the records store_analysis_result is given
StoreRecords ==
    { <<  <<s_urgency_level, [kind |-> "str", chars |-> <<"u","r","g","e","n","t">>]>>,
          <<s_model_used, NoneValue>> >>,
      <<  <<s_timestamp, [kind |-> "str", chars |-> <<"u","r","g","e","n","t">>]>>,
          <<s_model_used, [kind |-> "num", chars |-> <<"0",".","8","9">>]>> >>,
      <<  <<k_patient_name, [kind |-> "str", chars |-> <<"u","r","g","e","n","t">>]>>,
          <<s_urgency_level, [kind |-> "str", chars |-> <<"u","r","g","e","n","t">>]>> >>,
      <<  <<k_word_count, [kind |-> "num", chars |-> <<"0",".","8","9">>]>> >>,
      <<  <<s_urgency_level, [kind |-> "str", chars |-> <<"P","H","O","N","E"," ","1">>]>> >> }

----------------------------------------------------------------------------
(* app.py: the record upload_clinical_letter assembles and the storage     *)
(* status the handlers report.                                             *)

k_processing_timestamp == <<"p","r","o","c","e","s","s","i","n","g","_","t","i","m","e","s","t","a","m","p">>
k_filename == <<"f","i","l","e","n","a","m","e">>
k_character_count == <<"c","h","a","r","a","c","t","e","r","_","c","o","u","n","t">>
k_text_content == <<"t","e","x","t","_","c","o","n","t","e","n","t">>
k_ai_summary == <<"a","i","_","s","u","m","m","a","r","y">>
k_processing_successful == <<"p","r","o","c","e","s","s","i","n","g","_","s","u","c","c","e","s","s","f","u","l">>

\* the name of the uploaded file, after secure_filename
LetterFilenames == { [kind |-> "str", chars |-> <<"a",".","p","d","f">>] }

\* what extract_nhs_number finds in the letter: a number, or None
LetterNhsNumbers ==
    { [kind |-> "str", chars |-> <<"1","2","3","4","5","6","7","8","9","0">>], NoneValue }

\* analysis_result of upload_clinical_letter, for a letter whose text is
\* "chest pain"; the identifier and the timestamp are those of one instant
letter_analysis_result(filename, nhs_number) ==
    << <<s_analysis_id, [kind |-> "str", chars |-> <<"l","e","t","t","e","r","_","2","0","2","5","0","8","1","1","_","1","4","3","0","0","0">>]>>,
       <<k_processing_timestamp,
            [kind |-> "str", chars |-> <<"2","0","2","5","-","0","8","-","1","1","T","1","4",":","3","0",":","0","0","+","0","0",":","0","0">>]>>,
       <<k_filename, filename>>,
       <<s_nhs_number, nhs_number>>,
       <<k_word_count, [kind |-> "num", chars |-> <<"2">>]>>,
       <<k_character_count, [kind |-> "num", chars |-> <<"1","0">>]>>,
       <<k_text_content, [kind |-> "str", chars |-> <<"c","h","e","s","t"," ","p","a","i","n">>]>>,
       <<k_ai_summary, [kind |-> "dict", chars |-> <<"{","'","s","u","m","m","a","r","y","'",":"," ","'","o","k","'","}">>]>>,
       <<k_processing_successful, [kind |-> "bool", chars |-> <<"T","r","u","e">>]>> >>

\* the records upload_clinical_letter gives to store_analysis_result
LetterRecords ==
    { letter_analysis_result(filename, nhs_number) :
        filename \in LetterFilenames, nhs_number \in LetterNhsNumbers }

\* storage_status of process_patient_data and upload_clinical_letter, from the
\* outcome of their store_analysis_result call
storage_status(call) ==
    IF call.raised THEN "error"
    ELSE IF call.result # NoId THEN "stored"
    ELSE "rejected"

\* self.data_classifier.classify_analysis_data(record), for each of them
Classification ==
    [record \in StoreRecords \cup LetterRecords |-> classify_analysis_data(record)]

\* a try block that ends before the audit entry is written
StoreCatches_WriteOnly(fail) == fail \in {"item_open", "item_dump"}

\* whether the `except Exception` of store_analysis_result catches what step
\* `fail` of its body raises: the try block wraps every step
StoreCatches(fail) == TRUE

\* store_analysis_result without its `if not classification.can_store` return
StoreRejected_Unchecked(record) ==
    LET classification == Classification[record]
        storage_id == generate_storage_id
    IN  /\ ~classification.can_store
        /\ issued < MaxIds
        /\ issued' = storage_id
        /\ files' = Put(files, get_storage_path(classification.data_type, storage_id),
                        JsonDump(StoredData(record, classification, storage_id)))
        /\ last' = [ op |-> "store", record |-> record, fail |-> "none",
                     raised |-> FALSE, result |-> storage_id ]
        /\ UNCHANGED <<audit_logs, clock, utc_offset, origin, failures>>

\* store_analysis_result(record), when the classifier refuses the record
StoreRejected(record) ==
    /\ ~Classification[record].can_store
    /\ last' = [ op |-> "store", record |-> record, fail |-> "none",
                 raised |-> FALSE, result |-> NoId ]
    /\ UNCHANGED storage

\* store_analysis_result(record), when open(file_path, 'w') raises
StoreOpenFails(record) ==
    /\ Classification[record].can_store
    /\ issued < MaxIds
    /\ Fails
    /\ issued' = generate_storage_id
    /\ last' = [ op |-> "store", record |-> record, fail |-> "item_open",
                 raised |-> ~StoreCatches("item_open"), result |-> NoId ]
    /\ UNCHANGED <<files, audit_logs, clock, utc_offset, origin>>

\* store_analysis_result(record), when json.dump raises part-way
StoreDumpFails(record) ==
    LET classification == Classification[record]
        storage_id == generate_storage_id
    IN  /\ classification.can_store
        /\ issued < MaxIds
        /\ Fails
        /\ issued' = storage_id
        /\ files' = Put(files, get_storage_path(classification.data_type, storage_id), Torn)
        /\ last' = [ op |-> "store", record |-> record, fail |-> "item_dump",
                     raised |-> ~StoreCatches("item_dump"), result |-> NoId ]
        /\ UNCHANGED <<audit_logs, clock, utc_offset, origin>>

\* store_analysis_result(record), when the item is written: the audit entry
\* follows, and `fail` names the step of _log_audit_trail that raises, if any
StoreWritten(record, fail) ==
    LET classification == Classification[record]
        storage_id == generate_storage_id
        storage_path == get_storage_path(classification.data_type, storage_id)
        safe_data == StoredData(record, classification, storage_id)
        audit == log_audit_trail(storage_id, "store", classification.data_type, fail)
    IN  /\ classification.can_store
        /\ issued < MaxIds
        /\ AuditFails(fail)
        /\ AuditRoom(audit)
        /\ issued' = storage_id
        /\ files' = Put(files, storage_path, JsonDump(safe_data))
        /\ audit_logs' = audit.logs
        /\ origin' = IF audit.raised THEN origin ELSE Put(origin, storage_id, record)
        /\ last' = [ op |-> "store", record |-> record,
                     fail |-> IF audit.raised THEN "audit" ELSE "none",
                     raised |-> audit.raised /\ ~StoreCatches("audit"),
                     result |-> IF audit.raised THEN NoId ELSE storage_id ]
        /\ UNCHANGED <<clock, utc_offset>>

\* StorageManager.store_analysis_result
Store(record) ==
    \/ StoreRejected(record)
    \/ StoreOpenFails(record)
    \/ StoreDumpFails(record)
    \/ \E fail \in AuditFailures \cup {"none"} : StoreWritten(record, fail)

\* what retrieve_analysis_result and delete_analysis_result search: the first
\* directory, in the order of Partitions, that holds <storage_id>.json
FoundIn(storage_id) ==
    IF Exists(get_storage_path(Partitions[1], storage_id)) THEN Partitions[1]
    ELSE IF Exists(get_storage_path(Partitions[2], storage_id)) THEN Partitions[2]
    ELSE "nowhere"

NotFound == [found |-> FALSE]

\* a retrieve that records its misses in the audit log
RetrieveMissing_Logged(storage_id) ==
    /\ FoundIn(storage_id) = "nowhere"
    /\ AuditCount(audit_logs) < MaxAudit
    /\ audit_logs' = log_audit_trail(storage_id, "retrieve", "unknown", "none").logs
    /\ last' = [ op |-> "retrieve", storage_id |-> storage_id, fail |-> "none",
                 raised |-> FALSE, result |-> NotFound ]
    /\ UNCHANGED <<files, clock, utc_offset, issued, origin, failures>>

\* retrieve_analysis_result(storage_id), when no directory holds the file
RetrieveMissing(storage_id) ==
    /\ FoundIn(storage_id) = "nowhere"
    /\ last' = [ op |-> "retrieve", storage_id |-> storage_id, fail |-> "none",
                 raised |-> FALSE, result |-> NotFound ]
    /\ UNCHANGED storage

\* retrieve_analysis_result(storage_id), when _read_data raises: open or
\* json.load on an I/O error, json.load on a file that is not complete
RetrieveReadFails(storage_id) ==
    /\ FoundIn(storage_id) # "nowhere"
    /\ IF files[get_storage_path(FoundIn(storage_id), storage_id)].complete
       THEN Fails ELSE UNCHANGED failures
    /\ last' = [ op |-> "retrieve", storage_id |-> storage_id, fail |-> "item_read",
                 raised |-> FALSE, result |-> NotFound ]
    /\ UNCHANGED <<files, audit_logs, clock, utc_offset, issued, origin>>

\* retrieve_analysis_result(storage_id), when the file is read: the audit entry
\* follows, and `fail` names the step of _log_audit_trail that raises, if any
RetrieveRead(storage_id, fail) ==
    LET data_type == FoundIn(storage_id)
        storage_path == get_storage_path(data_type, storage_id)
        audit == log_audit_trail(storage_id, "retrieve", data_type, fail)
    IN  /\ data_type # "nowhere"
        /\ files[storage_path].complete
        /\ AuditFails(fail)
        /\ AuditRoom(audit)
        /\ audit_logs' = audit.logs
        /\ last' = [ op |-> "retrieve", storage_id |-> storage_id,
                     fail |-> IF audit.raised THEN "audit" ELSE "none",
                     raised |-> FALSE,
                     result |-> IF audit.raised THEN NotFound
                                ELSE [found |-> TRUE, data |-> files[storage_path].data] ]
        /\ UNCHANGED <<files, clock, utc_offset, issued, origin>>

\* StorageManager.retrieve_analysis_result
Retrieve(storage_id) ==
    \/ RetrieveMissing(storage_id)
    \/ RetrieveReadFails(storage_id)
    \/ \E fail \in AuditFailures \cup {"none"} : RetrieveRead(storage_id, fail)

\* a delete that records its misses in the audit log
DeleteMissing_Logged(storage_id) ==
    /\ FoundIn(storage_id) = "nowhere"
    /\ AuditCount(audit_logs) < MaxAudit
    /\ audit_logs' = log_audit_trail(storage_id, "delete", "unknown", "none").logs
    /\ last' = [ op |-> "delete", storage_id |-> storage_id, fail |-> "none",
                 raised |-> FALSE, result |-> FALSE ]
    /\ UNCHANGED <<files, clock, utc_offset, issued, origin, failures>>

\* delete_analysis_result(storage_id), when no directory holds the file
DeleteMissing(storage_id) ==
    /\ FoundIn(storage_id) = "nowhere"
    /\ last' = [ op |-> "delete", storage_id |-> storage_id, fail |-> "none",
                 raised |-> FALSE, result |-> FALSE ]
    /\ UNCHANGED storage

\* delete_analysis_result(storage_id), when storage_path.unlink() raises
DeleteUnlinkFails(storage_id) ==
    /\ FoundIn(storage_id) # "nowhere"
    /\ Fails
    /\ last' = [ op |-> "delete", storage_id |-> storage_id, fail |-> "unlink",
                 raised |-> FALSE, result |-> FALSE ]
    /\ UNCHANGED <<files, audit_logs, clock, utc_offset, issued, origin>>

\* a delete that records the deletion and keeps the file
DeleteUnlinked_Tombstone(storage_id, fail) ==
    LET data_type == FoundIn(storage_id)
        audit == log_audit_trail(storage_id, "delete", data_type, fail)
    IN  /\ data_type # "nowhere"
        /\ AuditFails(fail)
        /\ AuditRoom(audit)
        /\ audit_logs' = audit.logs
        /\ last' = [ op |-> "delete", storage_id |-> storage_id,
                     fail |-> IF audit.raised THEN "audit" ELSE "none",
                     raised |-> FALSE,
                     result |-> ~audit.raised ]
        /\ UNCHANGED <<files, clock, utc_offset, issued, origin>>

\* delete_analysis_result(storage_id), when the file is unlinked: the audit
\* entry follows, and `fail` names the step of _log_audit_trail that raises
DeleteUnlinked(storage_id, fail) ==
    LET data_type == FoundIn(storage_id)
        storage_path == get_storage_path(data_type, storage_id)
        audit == log_audit_trail(storage_id, "delete", data_type, fail)
    IN  /\ data_type # "nowhere"
        /\ AuditFails(fail)
        /\ AuditRoom(audit)
        /\ files' = Remove(files, storage_path)
        /\ audit_logs' = audit.logs
        /\ last' = [ op |-> "delete", storage_id |-> storage_id,
                     fail |-> IF audit.raised THEN "audit" ELSE "none",
                     raised |-> FALSE,
                     result |-> ~audit.raised ]
        /\ UNCHANGED <<clock, utc_offset, issued, origin>>

\* StorageManager.delete_analysis_result
Delete(storage_id) ==
    \/ DeleteMissing(storage_id)
    \/ DeleteUnlinkFails(storage_id)
    \/ \E fail \in AuditFailures \cup {"none"} : DeleteUnlinked(storage_id, fail)

\* the files cleanup_expired_data unlinks when the files of `failed` raise on
\* _read_data or on unlink: for each data type with a retention, the files of
\* its directory that parse and whose timestamp is before
\* datetime.now() - timedelta(days=retention_days)
ExpiredFiles(failed) ==
    { path \in DOMAIN files \ failed :
        /\ retention_policies[path[1]] # 0
        /\ files[path].complete
        /\ s_timestamp \in DOMAIN files[path].data
        /\ LET cutoff_date == LocalNow - retention_policies[path[1]] * HoursPerDay
               file_timestamp == FromIsoFormat(files[path].data[s_timestamp])
           IN  file_timestamp < cutoff_date }

\* a sweep that counts the expired files and leaves them in place
Cleanup_CountOnly(failed) ==
    /\ IF failed = {} THEN UNCHANGED failures ELSE Fails
    /\ last' = [ op |-> "cleanup",
                 fail |-> IF failed = {} THEN "none" ELSE "item",
                 raised |-> FALSE, result |-> Cardinality(ExpiredFiles(failed)) ]
    /\ UNCHANGED <<files, audit_logs, clock, utc_offset, issued, origin>>

\* StorageManager.cleanup_expired_data
Cleanup(failed) ==
    LET expired == ExpiredFiles(failed)
    IN  /\ IF failed = {} THEN UNCHANGED failures ELSE Fails
        /\ files' = [path \in DOMAIN files \ expired |-> files[path]]
        /\ last' = [ op |-> "cleanup",
                     fail |-> IF failed = {} THEN "none" ELSE "item",
                     raised |-> FALSE, result |-> Cardinality(expired) ]
        /\ UNCHANGED <<audit_logs, clock, utc_offset, issued, origin>>

\* the characters of a word of the source ("clinical_output", "low", ...)
Chars(w) ==
    CASE w = "clinical_output" -> <<"c","l","i","n","i","c","a","l","_","o","u","t","p","u","t">>
      [] w = "analysis_metadata" -> <<"a","n","a","l","y","s","i","s","_","m","e","t","a","d","a","t","a">>
      [] w = "sensitive_patient_data" -> <<"s","e","n","s","i","t","i","v","e","_","p","a","t","i","e","n","t","_","d","a","t","a">>
      [] w = "unknown" -> <<"u","n","k","n","o","w","n">>
      [] w = "low" -> <<"l","o","w">>
      [] w = "none" -> <<"n","o","n","e">>
      [] w = "high" -> <<"h","i","g","h">>
      [] w = "data_type" -> <<"d","a","t","a","_","t","y","p","e">>
      [] w = "sensitivity_level" -> <<"s","e","n","s","i","t","i","v","i","t","y","_","l","e","v","e","l">>
      [] w = "retention_days" -> <<"r","e","t","e","n","t","i","o","n","_","d","a","y","s">>
      [] w = "audit_required" -> <<"a","u","d","i","t","_","r","e","q","u","i","r","e","d">>

\* the text of a storage id: datetime.now().strftime("%Y%m%d_%H%M%S"), "_" and
\* the first 8 hex digits of a uuid4; the hours of the local clock stand for
\* the timestamp and the number of the id for the hex digits
StorageIdText(storage_id) ==
    Digits(LocalNow) \o <<"_">> \o <<"a","b","c","d","e","f","0">> \o Digits(storage_id)

\* the text of hashlib.sha256(...).hexdigest(): hex digits
HexDigestText == <<"e","3","b","0","c","4","4","2","9","8","f","c","1","c","1","4">>

\* repr() of the "classification" entry of a stored item
ClassificationText(c) ==
    <<"{","'">> \o Chars("data_type") \o <<"'",":"," ","'">> \o Chars(c.data_type)
      \o <<"'",","," ","'">> \o Chars("sensitivity_level") \o <<"'",":"," ","'">>
      \o Chars(c.sensitivity_level)
      \o <<"'",","," ","'">> \o Chars("retention_days") \o <<"'",":"," ">>
      \o Digits(c.retention_days)
      \o <<",", " ","'">> \o Chars("audit_required") \o <<"'",":"," ">>
      \o (IF c.audit_required THEN <<"T","r","u","e">> ELSE <<"F","a","l","s","e">>)
      \o <<"}">>

\* the keys of safe_data in the order store_analysis_result inserts them
StoredKeys ==
    << s_analysis_id, s_timestamp, s_processing_time, s_model_used,
       s_confidence_score, s_urgency_level, s_care_level, s_data_hash,
       s_risk_factors, s_recommendations, s_storage_id, s_classification >>

\* a stored item as the dict _read_data returns: its entries in insertion
\* order, each value with the text Python prints for it
StoredDict(data) ==
    LET Value(v) ==
            CASE v.kind = "id" -> [kind |-> "str", chars |-> StorageIdText(v.id)]
              [] v.kind = "sha256" -> [kind |-> "str", chars |-> HexDigestText]
              [] v.kind = "dict" -> [kind |-> "dict", chars |-> ClassificationText(v)]
              [] OTHER -> v
        present == SelectSeq(StoredKeys, LAMBDA k : k \in DOMAIN data)
    IN  [i \in 1..Len(present) |-> <<present[i], Value(data[present[i]])>>]

\* file_path.stat().st_size, in units of one entry of the item
st_size(doc) == IF doc.complete THEN Cardinality(DOMAIN doc.data) ELSE 0

\* get_storage_stats: the statistics after the loop has counted the files of
\* the first `listed` directories and added the sizes of those of the first
\* `sized` directories
StatsAfter(listed, sized) ==
    LET FilesOf(n) == {path \in DOMAIN files : path[1] = Partitions[n]}
        RECURSIVE Size(_)
        Size(S) == IF S = {} THEN 0
                   ELSE LET path == CHOOSE x \in S : TRUE
                        IN  st_size(files[path]) + Size(S \ {path})
    IN  [ total_files |-> Cardinality(UNION {FilesOf(n) : n \in 1..listed}),
          data_types |-> [d \in {Partitions[n] : n \in 1..listed} |->
                             Cardinality({path \in DOMAIN files : path[1] = d})],
          total_size_bytes |-> Size(UNION {FilesOf(n) : n \in 1..sized}) ]

\* StorageManager.get_storage_stats: `fail` names the step that raises in
\* directory n, the glob ("list") or the stat of its first file ("stat"); the
\* handler returns the statistics gathered so far
Stats(fail, n) ==
    /\ IF fail = "none" THEN n = Len(Partitions) /\ UNCHANGED failures ELSE Fails
    /\ fail = "stat" => \E path \in DOMAIN files : path[1] = Partitions[n]
    /\ last' = [ op |-> "stats", fail |-> fail, raised |-> FALSE,
                 result |-> CASE fail = "none" -> StatsAfter(n, n)
                              [] fail = "list" -> StatsAfter(n - 1, n - 1)
                              [] fail = "stat" -> StatsAfter(n, n - 1) ]
    /\ UNCHANGED <<files, audit_logs, clock, utc_offset, issued, origin>>

\* upload_clinical_letter, from the assembly of analysis_result on: the record
\* is given to store_analysis_result
UploadLetter(filename, nhs_number) ==
    Store(letter_analysis_result(filename, nhs_number))

\* the time that passes between calls, in hours: 30 days, and an hour more
\* than 90 days
TickHours == {30 * HoursPerDay, 90 * HoursPerDay + 1}

\* time passes
Tick(hours) ==
    /\ clock + hours <= MaxClock
    /\ clock' = clock + hours
    /\ last' = [op |-> "tick"]
    /\ UNCHANGED <<files, audit_logs, utc_offset, issued, origin, failures>>

----------------------------------------------------------------------------
(* The initial state; the classifier called on its own; the storage        *)
(* manager's calls.                                                        *)

\* the time zones of the host: UTC, and two hours east of it
UtcOffsets == {0, 2}

\* the request threads that call the storage manager concurrently
Threads == {1, 2}

\* a thread that has not called yet
Idle == [pc |-> "idle"]

Init ==
    /\ calls = [t \in Threads |-> Idle]
    /\ table = EmptyMap
    /\ files = EmptyMap
    /\ audit_logs = EmptyMap
    /\ clock = 0
    /\ utc_offset \in UtcOffsets
    /\ issued = 0
    /\ origin = EmptyMap
    /\ failures = 0
    /\ last = [op |-> "init"]

\* a caller holds a record it is about to classify or project
InitClassifier ==
    /\ calls = [t \in Threads |-> Idle]
    /\ table = EmptyMap
    /\ files = EmptyMap
    /\ audit_logs = EmptyMap
    /\ clock = 0
    /\ utc_offset \in UtcOffsets
    /\ issued = 0
    /\ origin = EmptyMap
    /\ failures = 0
    /\ last \in {[op |-> "input", record |-> r] : r \in Records}

\* the caller runs classify_analysis_data(record)
Classify ==
    /\ last.op = "input"
    /\ last' = [ op |-> "classify", record |-> last.record,
                 result |-> classify_analysis_data(last.record) ]
    /\ UNCHANGED storage

\* the caller runs create_safe_storage_data(record)
Build ==
    /\ last.op = "input"
    /\ last' = [ op |-> "build", record |-> last.record,
                 result |-> create_safe_storage_data(last.record, UtcNow) ]
    /\ UNCHANGED storage

NextClassifier == (Classify \/ Build) /\ UNCHANGED <<calls, table>>

SpecClassifier == InitClassifier /\ [][NextClassifier]_vars


\* the identifiers a caller can name: those generated so far, and a made-up one
CallIds == 1..issued \cup {FakeId}

Next ==
    \/ \E record \in StoreRecords : Store(record) /\ UNCHANGED <<calls, table>>
    \/ \E filename \in LetterFilenames, nhs_number \in LetterNhsNumbers :
          UploadLetter(filename, nhs_number) /\ UNCHANGED <<calls, table>>
    \/ \E storage_id \in StorageIds \cup {FakeId} :
          storage_id \in CallIds /\ Retrieve(storage_id) /\ UNCHANGED <<calls, table>>
    \/ \E storage_id \in StorageIds \cup {FakeId} :
          storage_id \in CallIds /\ Delete(storage_id) /\ UNCHANGED <<calls, table>>
    \/ \E failed \in SUBSET DOMAIN files : Cleanup(failed) /\ UNCHANGED <<calls, table>>
    \/ \E fail \in {"none", "list", "stat"}, n \in 1..Len(Partitions) :
          Stats(fail, n) /\ UNCHANGED <<calls, table>>
    \/ \E hours \in TickHours : Tick(hours) /\ UNCHANGED <<calls, table>>

Spec == Init /\ [][Next]_vars

----------------------------------------------------------------------------
(* Concurrent calls.  The handlers run on request threads with no lock;    *)
(* each thread makes one call, and a step of a call is one access to the   *)
(* file system: a listing, an existence test, a read, a write, an unlink.  *)
(* calls[t] holds the position of thread t in its handler and its locals.  *)

\* thread t moves on: calls[t] becomes call
SetCall(t, call) == calls' = [calls EXCEPT ![t] = call]

\* the locals of a handler as it starts: nothing found, read or loaded yet
Locals(op, storage_id) ==
    [ op |-> op, pc |-> "start", storage_id |-> storage_id, data_type |-> "nowhere",
      n |-> 1, record |-> <<>>, safe_data |-> EmptyMap, ok |-> FALSE,
      audit_log |-> <<>>, todo |-> {}, path |-> <<>>, deleted_count |-> 0 ]

\* thread t returns result (raised tells whether an exception left the handler)
Return(t, result, raised) ==
    SetCall(t, [ op |-> calls[t].op, pc |-> "done", storage_id |-> calls[t].storage_id,
                 data_type |-> calls[t].data_type,
                 result |-> result, raised |-> raised ])

\* _read_data on the files: json.load of a file that is there and complete
read_data(path) ==
    IF path \in DOMAIN files /\ files[path].complete
    THEN [raised |-> FALSE, data |-> files[path].data]
    ELSE [raised |-> TRUE]

\* a retrieve whose handler lets FileNotFoundError of _read_data through
RetrieveCatches_AuditOnly(step) == step = "audit"

\* whether the `except Exception` of retrieve_analysis_result catches what step
\* `step` of its body raises: the try block wraps every step
RetrieveCatches(step) == TRUE

\* what a call returns when its audit entry cannot be written: the exception of
\* _log_audit_trail ends in the handler's except branch
AuditFailed(t) ==
    CASE calls[t].op = "store" -> NoId
      [] calls[t].op = "retrieve" -> NotFound
      [] calls[t].op = "delete" -> FALSE

\* thread t calls store_analysis_result(record): classification, safe data and
\* storage id are computed (l.60-80)
BeginStore(t, record) ==
    LET classification == Classification[record]
        storage_id == generate_storage_id
    IN  /\ calls[t] = Idle
        /\ IF ~classification.can_store
           THEN /\ SetCall(t, [ op |-> "store", pc |-> "done", storage_id |-> NoId,
                                data_type |-> classification.data_type,
                                result |-> NoId, raised |-> FALSE ])
                /\ UNCHANGED issued
           ELSE /\ issued < MaxIds
                /\ issued' = storage_id
                /\ SetCall(t, [ Locals("store", storage_id) EXCEPT
                                  !.pc = "write", !.record = record,
                                  !.data_type = classification.data_type,
                                  !.safe_data = StoredData(record, classification, storage_id),
                                  !.ok = storage_id ])
        /\ UNCHANGED <<files, audit_logs, clock, utc_offset, origin, failures, last>>

\* store_analysis_result: self._write_data(storage_path, safe_data) (l.83-84)
StoreWrite(t) ==
    /\ calls[t].pc = "write"
    /\ files' = Put(files, get_storage_path(calls[t].data_type, calls[t].storage_id),
                    JsonDump(calls[t].safe_data))
    /\ SetCall(t, [calls[t] EXCEPT !.pc = "audit_read"])
    /\ UNCHANGED <<audit_logs, clock, utc_offset, issued, origin, failures, last>>

\* _log_audit_trail: the audit file of the day is loaded, if it exists
\* (l.259-266); json.load raises on a file that is not complete
AuditRead(t) ==
    /\ calls[t].pc = "audit_read"
    /\ IF AuditFile \in DOMAIN audit_logs /\ ~audit_logs[AuditFile].complete
       THEN Return(t, AuditFailed(t), FALSE)
       ELSE SetCall(t, [ calls[t] EXCEPT
                           !.pc = "audit_open",
                           !.audit_log = EntriesOf(audit_logs, AuditFile) ])
    /\ UNCHANGED <<files, audit_logs, clock, utc_offset, issued, origin, failures, last>>

\* _log_audit_trail: open(audit_file, 'w') truncates the file (l.271)
AuditOpen(t) ==
    /\ calls[t].pc = "audit_open"
    /\ audit_logs' = Put(audit_logs, AuditFile, Torn)
    /\ SetCall(t, [calls[t] EXCEPT !.pc = "audit_dump"])
    /\ UNCHANGED <<files, clock, utc_offset, issued, origin, failures, last>>

\* _log_audit_trail: json.dump(audit_log, f) writes the entries the thread
\* loaded and its own (l.268, l.272); the handler returns its result
AuditDump(t) ==
    LET audit_entry == [ timestamp |-> IsoFormat(LocalNow),
                         storage_id |-> calls[t].storage_id,
                         action |-> calls[t].op,
                         data_type |-> calls[t].data_type ]
    IN  /\ calls[t].pc = "audit_dump"
        /\ audit_logs' = Put(audit_logs, AuditFile,
                             JsonDump(Append(calls[t].audit_log, audit_entry)))
        /\ Return(t, calls[t].ok, FALSE)
        /\ origin' = IF calls[t].op = "store"
                     THEN Put(origin, calls[t].storage_id, calls[t].record)
                     ELSE origin
        /\ UNCHANGED <<files, clock, utc_offset, issued, failures, last>>

\* thread t calls retrieve_analysis_result or delete_analysis_result: the loop
\* over the directories starts with the first
BeginLookup(t, op, storage_id) ==
    /\ calls[t] = Idle
    /\ SetCall(t, [Locals(op, storage_id) EXCEPT !.pc = "exists"])
    /\ UNCHANGED <<files, audit_logs, clock, utc_offset, issued, origin, failures, last>>

\* retrieve and delete: storage_path.exists() in directory n (l.108-110,
\* l.138-140); after the last directory the call returns not found
LookupExists(t) ==
    LET call == calls[t]
    IN  /\ call.pc = "exists"
        /\ IF Exists(get_storage_path(Partitions[call.n], call.storage_id))
           THEN SetCall(t, [ call EXCEPT
                               !.data_type = Partitions[call.n],
                               !.pc = IF call.op = "retrieve" THEN "read" ELSE "unlink" ])
           ELSE IF call.n < Len(Partitions)
           THEN SetCall(t, [call EXCEPT !.n = call.n + 1])
           ELSE Return(t, IF call.op = "retrieve" THEN NotFound ELSE FALSE, FALSE)
        /\ UNCHANGED <<files, audit_logs, clock, utc_offset, issued, origin, failures, last>>

\* retrieve_analysis_result: data = self._read_data(storage_path) (l.111)
RetrieveReadStep(t) ==
    LET call == calls[t]
        read == read_data(get_storage_path(call.data_type, call.storage_id))
    IN  /\ call.pc = "read"
        /\ IF read.raised
           THEN Return(t, NotFound, ~RetrieveCatches("read"))
           ELSE SetCall(t, [ call EXCEPT
                               !.pc = "audit_read",
                               !.ok = [found |-> TRUE, data |-> read.data] ])
        /\ UNCHANGED <<files, audit_logs, clock, utc_offset, issued, origin, failures, last>>

\* delete_analysis_result: storage_path.unlink() (l.141); FileNotFoundError
\* when another thread has removed the file
DeleteUnlinkStep(t) ==
    LET call == calls[t]
        storage_path == get_storage_path(call.data_type, call.storage_id)
    IN  /\ call.pc = "unlink"
        /\ IF Exists(storage_path)
           THEN /\ files' = Remove(files, storage_path)
                /\ SetCall(t, [call EXCEPT !.pc = "audit_read", !.ok = TRUE])
           ELSE /\ Return(t, FALSE, FALSE)
                /\ UNCHANGED files
        /\ UNCHANGED <<audit_logs, clock, utc_offset, issued, origin, failures, last>>

\* thread t calls cleanup_expired_data: deleted_count = 0, and the loop over
\* retention_policies starts with the first data type (l.163-166)
BeginCleanup(t) ==
    /\ calls[t] = Idle
    /\ SetCall(t, [Locals("cleanup", NoId) EXCEPT !.pc = "list"])
    /\ UNCHANGED <<files, audit_logs, clock, utc_offset, issued, origin, failures, last>>

\* cleanup_expired_data: storage_dir.glob("*.json") lists the files of data
\* type n (l.170-176)
CleanupList(t) ==
    LET call == calls[t]
    IN  /\ call.pc = "list"
        /\ SetCall(t, [ call EXCEPT
                          !.pc = "file",
                          !.data_type = Partitions[call.n],
                          !.todo = {path \in DOMAIN files : path[1] = Partitions[call.n]} ])
        /\ UNCHANGED <<files, audit_logs, clock, utc_offset, issued, origin, failures, last>>

\* cleanup_expired_data: the next file of the listing is read and its timestamp
\* compared with the cutoff (l.177-184); an exception of _read_data is caught and
\* the file skipped (l.189-190); after the last file of the last data type the
\* count is returned (l.192-193)
CleanupFile(t) ==
    LET call == calls[t]
        cutoff_date == LocalNow - retention_policies[call.data_type] * HoursPerDay
    IN  /\ call.pc = "file"
        /\ IF call.todo = {}
           THEN IF call.n < Len(Partitions)
                THEN SetCall(t, [call EXCEPT !.pc = "list", !.n = call.n + 1])
                ELSE Return(t, call.deleted_count, FALSE)
           ELSE \E path \in call.todo :
                  LET read == read_data(path)
                  IN  IF /\ ~read.raised
                         /\ s_timestamp \in DOMAIN read.data
                         /\ FromIsoFormat(read.data[s_timestamp]) < cutoff_date
                      THEN SetCall(t, [call EXCEPT !.pc = "sweep_unlink", !.path = path])
                      ELSE SetCall(t, [call EXCEPT !.todo = call.todo \ {path}])
        /\ UNCHANGED <<files, audit_logs, clock, utc_offset, issued, origin, failures, last>>

\* cleanup_expired_data: file_path.unlink() and deleted_count += 1 (l.185-186);
\* FileNotFoundError, when another thread has removed the file, is caught and
\* the file skipped (l.189-190)
CleanupUnlink(t) ==
    LET call == calls[t]
    IN  /\ call.pc = "sweep_unlink"
        /\ IF Exists(call.path)
           THEN /\ files' = Remove(files, call.path)
                /\ SetCall(t, [ call EXCEPT
                                  !.pc = "file", !.todo = call.todo \ {call.path},
                                  !.deleted_count = call.deleted_count + 1 ])
           ELSE /\ UNCHANGED files
                /\ SetCall(t, [call EXCEPT !.pc = "file", !.todo = call.todo \ {call.path}])
        /\ UNCHANGED <<audit_logs, clock, utc_offset, issued, origin, failures, last>>

\* a classifier that answers from what the storage holds: once an item is
\* stored, every record is taken for sensitive
ClassifyCall_Stateful(t, record) ==
    /\ calls[t] = Idle
    /\ SetCall(t, [ op |-> "classify", pc |-> "done", storage_id |-> NoId,
                    data_type |-> "nowhere", record |-> record,
                    result |-> IF files = EmptyMap
                               THEN classify_analysis_data(record)
                               ELSE SensitiveClassification,
                    raised |-> FALSE ])
    /\ UNCHANGED <<files, audit_logs, clock, utc_offset, issued, origin, failures, last>>

\* thread t calls classify_analysis_data(record): the scan of str(data) and the
\* key tests read the record and the classifier's constant lists, and touch
\* neither a file nor the audit log; the call is one step
ClassifyCall(t, record) ==
    /\ calls[t] = Idle
    /\ SetCall(t, [ op |-> "classify", pc |-> "done", storage_id |-> NoId,
                    data_type |-> "nowhere", record |-> record,
                    result |-> classify_analysis_data(record),
                    raised |-> FALSE ])
    /\ UNCHANGED <<files, audit_logs, clock, utc_offset, issued, origin, failures, last>>

\* no thread has called yet
AllIdle == \A t \in Threads : calls[t] = Idle

\* before the threads start, items are stored by calls that run alone
SeedStore(record) == AllIdle /\ StoreWritten(record, "none") /\ UNCHANGED <<calls, table>>

\* before the threads start, time passes
SeedTick(hours) == AllIdle /\ Tick(hours) /\ UNCHANGED <<calls, table>>

\* the identifiers a thread can name: those a store has returned, and a made-up one
KnownIds == DOMAIN origin \cup {FakeId}

NextConcurrent ==
    \/ \E record \in StoreRecords : SeedStore(record)
    \/ \E hours \in TickHours : SeedTick(hours)
    \/ \E t \in Threads :
          \/ \E record \in StoreRecords : BeginStore(t, record) /\ UNCHANGED table
          \/ \E storage_id \in StorageIds \cup {FakeId} :
                /\ storage_id \in KnownIds
                /\ \/ BeginLookup(t, "retrieve", storage_id)
                   \/ BeginLookup(t, "delete", storage_id)
                /\ UNCHANGED table
          \/ \E record \in StoreRecords : ClassifyCall(t, record) /\ UNCHANGED table
          \/ BeginCleanup(t) /\ UNCHANGED table
          \/ StoreWrite(t) /\ UNCHANGED table
          \/ LookupExists(t) /\ UNCHANGED table
          \/ RetrieveReadStep(t) /\ UNCHANGED table
          \/ DeleteUnlinkStep(t) /\ UNCHANGED table
          \/ CleanupList(t) /\ UNCHANGED table
          \/ CleanupFile(t) /\ UNCHANGED table
          \/ CleanupUnlink(t) /\ UNCHANGED table
          \/ AuditRead(t) /\ UNCHANGED table
          \/ AuditOpen(t) /\ UNCHANGED table
          \/ AuditDump(t) /\ UNCHANGED table

SpecConcurrent == Init /\ [][NextConcurrent]_vars

----------------------------------------------------------------------------
(* AWSStorageManager: the cloud backend.  `files` holds the objects of the *)
(* S3 bucket under the keys <data_type>/<storage_id>.json, `audit_logs`    *)
(* the objects audit_logs/audit_<date>.json, and `table` the items of the  *)
(* DynamoDB table.  put_object, delete_object, put_item and delete_item    *)
(* take effect as a whole or raise and leave their target as it was.       *)
(* Every handler is one action; `fail` names the backend call that raises. *)

\* a failure of the named backend call is injected, or none is
AwsFails(fail) == IF fail = "none" THEN UNCHANGED failures ELSE Fails

\* AWSStorageManager._log_audit_trail: the audit objects it leaves.  A failed
\* read of the day's object gives audit_log = [] (l.302-306), a failed
\* put_object is logged (l.313-314); nothing is raised
aws_log_audit_trail(storage_id, action, data_type, fail) ==
    LET audit_entry == [ timestamp |-> IsoFormat(LocalNow),
                         storage_id |-> storage_id,
                         action |-> action,
                         data_type |-> data_type,
                         storage_type |-> "aws" ]
        audit_log == IF fail = "audit_get" THEN <<>>
                     ELSE EntriesOf(audit_logs, AuditFile)
    IN  IF fail = "audit_put" THEN audit_logs
        ELSE Put(audit_logs, AuditFile, JsonDump(Append(audit_log, audit_entry)))

\* the steps of AWSStorageManager._log_audit_trail that can fail
AwsAuditFailures == {"audit_get", "audit_put"}

\* the item _store_in_dynamodb puts in the table
dynamodb_item(storage_id, data, classification) ==
    [ storage_id |-> storage_id,
      timestamp |-> data[s_timestamp],
      data_type |-> classification.data_type,
      sensitivity_level |-> classification.sensitivity_level,
      retention_days |-> classification.retention_days ]

\* a store that writes the audit entry before the object and the table item
AwsStore_AuditFirst(record, fail) ==
    LET classification == Classification[record]
        storage_id == generate_storage_id
        s3_key == get_storage_path(classification.data_type, storage_id)
        safe_data == StoredData(record, classification, storage_id)
        in_s3 == fail # "s3_put"
        in_dynamodb == fail \notin {"s3_put", "dynamodb_put"}
    IN  /\ AwsFails(fail)
        /\ IF ~classification.can_store
           THEN /\ fail = "none"
                /\ last' = [ op |-> "store", record |-> record, fail |-> fail,
                             raised |-> FALSE, result |-> NoId ]
                /\ UNCHANGED <<files, table, audit_logs, issued, origin>>
           ELSE /\ issued < MaxIds
                /\ issued' = storage_id
                /\ audit_logs' = aws_log_audit_trail(storage_id, "store",
                                                     classification.data_type, fail)
                /\ AuditCount(audit_logs') <= MaxAudit
                /\ files' = IF in_s3 THEN Put(files, s3_key, JsonDump(safe_data)) ELSE files
                /\ table' = IF in_dynamodb
                            THEN Put(table, storage_id,
                                     dynamodb_item(storage_id, safe_data, classification))
                            ELSE table
                /\ origin' = IF in_dynamodb THEN Put(origin, storage_id, record) ELSE origin
                /\ last' = [ op |-> "store", record |-> record, fail |-> fail,
                             raised |-> FALSE,
                             result |-> IF in_dynamodb THEN storage_id ELSE NoId ]
        /\ UNCHANGED <<clock, utc_offset>>

\* AWSStorageManager.store_analysis_result: _store_in_s3 (l.82-83), then
\* _store_in_dynamodb (l.86), then _log_audit_trail (l.89); an exception of the
\* first two ends in `return None` (l.94-96)
AwsStore(record, fail) ==
    LET classification == Classification[record]
        storage_id == generate_storage_id
        s3_key == get_storage_path(classification.data_type, storage_id)
        safe_data == StoredData(record, classification, storage_id)
        in_s3 == fail # "s3_put"
        in_dynamodb == fail \notin {"s3_put", "dynamodb_put"}
    IN  /\ AwsFails(fail)
        /\ IF ~classification.can_store
           THEN /\ fail = "none"
                /\ last' = [ op |-> "store", record |-> record, fail |-> fail,
                             raised |-> FALSE, result |-> NoId ]
                /\ UNCHANGED <<files, table, audit_logs, issued, origin>>
           ELSE /\ issued < MaxIds
                /\ issued' = storage_id
                /\ files' = IF in_s3 THEN Put(files, s3_key, JsonDump(safe_data)) ELSE files
                /\ table' = IF in_dynamodb
                            THEN Put(table, storage_id,
                                     dynamodb_item(storage_id, safe_data, classification))
                            ELSE table
                /\ audit_logs' = IF in_dynamodb
                                 THEN aws_log_audit_trail(storage_id, "store",
                                                          classification.data_type, fail)
                                 ELSE audit_logs
                /\ AuditCount(audit_logs') <= MaxAudit
                /\ origin' = IF in_dynamodb THEN Put(origin, storage_id, record) ELSE origin
                /\ last' = [ op |-> "store", record |-> record, fail |-> fail,
                             raised |-> FALSE,
                             result |-> IF in_dynamodb THEN storage_id ELSE NoId ]
        /\ UNCHANGED <<clock, utc_offset>>

\* AWSStorageManager.retrieve_analysis_result: table.get_item (l.110), then
\* _retrieve_from_s3 (l.121), which gives None for a missing key, then
\* _log_audit_trail (l.125); an exception ends in `return None` (l.132-134)
AwsRetrieve(storage_id, fail) ==
    LET in_table == storage_id \in DOMAIN table
        data_type == table[storage_id].data_type
        s3_key == get_storage_path(data_type, storage_id)
        found == in_table /\ fail # "dynamodb_get"
        got == found /\ fail # "s3_get" /\ s3_key \in DOMAIN files
    IN  /\ AwsFails(fail)
        /\ fail \notin {"none", "dynamodb_get"} => in_table
        /\ fail \in AwsAuditFailures => s3_key \in DOMAIN files
        /\ audit_logs' = IF got
                         THEN aws_log_audit_trail(storage_id, "retrieve", data_type, fail)
                         ELSE audit_logs
        /\ AuditCount(audit_logs') <= MaxAudit
        /\ last' = [ op |-> "retrieve", storage_id |-> storage_id, fail |-> fail,
                     raised |-> FALSE,
                     result |-> IF got THEN [found |-> TRUE, data |-> files[s3_key].data]
                                ELSE NotFound ]
        /\ UNCHANGED <<files, table, clock, utc_offset, issued, origin>>

\* AWSStorageManager.delete_analysis_result: table.get_item (l.148), then
\* _delete_from_s3 (l.159), then table.delete_item (l.162), then
\* _log_audit_trail (l.165); an exception ends in `return False` (l.170-172)
AwsDelete(storage_id, fail) ==
    LET in_table == storage_id \in DOMAIN table
        data_type == table[storage_id].data_type
        s3_key == get_storage_path(data_type, storage_id)
        found == in_table /\ fail # "dynamodb_get"
        s3_deleted == found /\ fail # "s3_delete"
        item_deleted == s3_deleted /\ fail # "dynamodb_delete"
    IN  /\ AwsFails(fail)
        /\ fail \notin {"none", "dynamodb_get"} => in_table
        /\ files' = IF s3_deleted THEN Remove(files, s3_key) ELSE files
        /\ table' = IF item_deleted THEN Remove(table, storage_id) ELSE table
        /\ audit_logs' = IF item_deleted
                         THEN aws_log_audit_trail(storage_id, "delete", data_type, fail)
                         ELSE audit_logs
        /\ AuditCount(audit_logs') <= MaxAudit
        /\ last' = [ op |-> "delete", storage_id |-> storage_id, fail |-> fail,
                     raised |-> FALSE, result |-> item_deleted ]
        /\ UNCHANGED <<clock, utc_offset, issued, origin>>

\* list_objects_v2(Bucket)['Contents'], as the statistics read it: the number
\* of objects, their number by the first part of the key, and the sum of their
\* sizes; the audit objects are objects of the bucket
s3_stats ==
    LET prefixes == {path[1] : path \in DOMAIN files}
                      \cup (IF audit_logs = EmptyMap THEN {} ELSE {"audit_logs"})
        RECURSIVE Size(_, _)
        Size(objects, S) ==
            IF S = {} THEN 0
            ELSE LET key == CHOOSE x \in S : TRUE
                 IN  st_size(objects[key]) + Size(objects, S \ {key})
    IN  [ total_files |-> Cardinality(DOMAIN files) + Cardinality(DOMAIN audit_logs),
          data_types |-> [ d \in prefixes |->
                             IF d = "audit_logs" THEN Cardinality(DOMAIN audit_logs)
                             ELSE Cardinality({path \in DOMAIN files : path[1] = d}) ],
          total_size_bytes |-> Size(files, DOMAIN files)
                                 + Cardinality(DOMAIN audit_logs),
          storage_type |-> "aws" ]

\* the failures of get_storage_stats: list_objects_v2 or table.scan raises a
\* ClientError (an error response of the service) or another exception (no
\* credentials, no connection, a timeout)
AwsStatsFailures ==
    {"s3_client_error", "s3_error", "scan_client_error", "scan_error"}

\* AWSStorageManager.get_storage_stats: the inner handlers catch ClientError
\* (l.201, l.208); any other exception reaches the outer handler, which
\* returns {"error": ..., "storage_type": "aws"} (l.213-215)
AwsStats(fail) ==
    LET zero == [ total_files |-> 0, data_types |-> EmptyMap,
                  total_size_bytes |-> 0, storage_type |-> "aws" ]
        s3 == IF fail = "s3_client_error" THEN zero ELSE s3_stats
        all == [ total_files |-> s3.total_files, data_types |-> s3.data_types,
                 total_size_bytes |-> s3.total_size_bytes,
                 storage_type |-> "aws",
                 dynamodb_items |-> Cardinality(DOMAIN table) ]
    IN  /\ AwsFails(fail)
        /\ last' = [ op |-> "stats", fail |-> fail, raised |-> FALSE,
                     result |-> CASE fail \in {"s3_error", "scan_error"} ->
                                       [ error |-> "exception", storage_type |-> "aws" ]
                                  [] fail = "scan_client_error" -> s3
                                  [] OTHER -> all ]
        /\ UNCHANGED <<files, table, audit_logs, clock, utc_offset, issued, origin>>

NextAws ==
    \/ \E record \in StoreRecords,
          fail \in {"none", "s3_put", "dynamodb_put"} \cup AwsAuditFailures :
          AwsStore(record, fail) /\ UNCHANGED calls
    \/ \E storage_id \in StorageIds \cup {FakeId},
          fail \in {"none", "dynamodb_get", "s3_get"} \cup AwsAuditFailures :
          storage_id \in CallIds /\ AwsRetrieve(storage_id, fail) /\ UNCHANGED calls
    \/ \E storage_id \in StorageIds \cup {FakeId},
          fail \in {"none", "dynamodb_get", "s3_delete", "dynamodb_delete"}
                     \cup AwsAuditFailures :
          storage_id \in CallIds /\ AwsDelete(storage_id, fail) /\ UNCHANGED calls
    \/ \E fail \in {"none"} \cup AwsStatsFailures : AwsStats(fail) /\ UNCHANGED calls

SpecAws == Init /\ [][NextAws]_vars

----------------------------------------------------------------------------
(* The storage id by what it is made of.  Elsewhere an id is a number and  *)
(* every generated id is new; here it is the pair of the local time, as    *)
(* strftime prints it to the second, and the 8 hex digits taken from a     *)
(* uuid4, which two calls may draw alike.  A reading of the clock stands   *)
(* for one second: the stores between two ticks run within the same        *)
(* second.                                                                 *)

\* the first 8 hex digits of str(uuid.uuid4()) that a call can draw
Uuid8s == {"ab12cd34", "0f9e8d7c"}

\* an identifier made of the hex digits alone
generate_storage_id_from_NoTimestamp(uuid8) == <<0, uuid8>>

\* StorageManager._generate_storage_id: f"{timestamp}_{unique_id}"
generate_storage_id_from(uuid8) == <<LocalNow, uuid8>>

\* store_analysis_result(record) for a record the classifier allows, with no
\* backend failure, when uuid4 gives the hex digits uuid8: open(file_path, 'w')
\* creates the file or truncates the one that is there
StoreWithId(record, uuid8) ==
    LET classification == Classification[record]
        storage_id == generate_storage_id_from(uuid8)
        storage_path == get_storage_path(classification.data_type, storage_id)
        audit == log_audit_trail(storage_id, "store", classification.data_type, "none")
    IN  /\ classification.can_store
        /\ issued < MaxIds
        /\ AuditRoom(audit)
        /\ issued' = issued + 1
        /\ files' = Put(files, storage_path,
                        JsonDump(StoredData(record, classification, storage_id)))
        /\ audit_logs' = audit.logs
        /\ origin' = Put(origin, storage_id, record)
        /\ last' = [ op |-> "store", record |-> record, fail |-> "none",
                     raised |-> FALSE, result |-> storage_id ]
        /\ UNCHANGED <<clock, utc_offset, failures>>

NextIds ==
    \/ \E record \in StoreRecords, uuid8 \in Uuid8s :
          StoreWithId(record, uuid8) /\ UNCHANGED <<calls, table>>
    \/ \E hours \in TickHours : Tick(hours) /\ UNCHANGED <<calls, table>>

SpecIds == Init /\ [][NextIds]_vars

----------------------------------------------------------------------------
(* Claims about the classifier and the safe-projection builder             *)
(* (checked under SpecClassifier).                                         *)

\* the text of a value as the claims read it: a string's content, or the
\* printed form of a number, None or a list
ValueText(v) == v.chars

\* the sensitivity indicators, as the specification lists them
IndicatorNames ==
    { s_name, s_address, s_phone, s_email, s_nhs_number,
      s_date_of_birth, s_postcode, s_full_name }

\* an indicator is a case-insensitive substring of some key or some value
HasIndicator(record) ==
    \E i \in 1..Len(record), ind \in IndicatorNames :
        \/ InStr(ind, Lower(record[i][1]))
        \/ InStr(ind, Lower(ValueText(record[i][2])))

\* the clinical-output and metadata field names, as the specification lists them
ClinicalNames ==
    { s_urgency_level, s_care_level, s_risk_factors,
      s_recommendations, s_confidence_score }

MetadataNames ==
    { s_processing_time, s_model_used, s_timestamp, s_analysis_id, s_created_at }

\* C1: every record with a sensitivity indicator in a key or a value classifies
\* as sensitive_patient_data with can_store = false, whatever other fields it has.
C1_SensitivePrecedence ==
    (last.op = "classify" /\ HasIndicator(last.record))
        => /\ last.result.can_store = FALSE
           /\ last.result.data_type = "sensitive_patient_data"

\* a record with an identifier and a clinical-output field was classified
C1_Witness ==
    /\ last.op = "classify"
    /\ HasIndicator(last.record)
    /\ Keys(last.record) \cap ClinicalNames # {}
    /\ last.result.data_type = "sensitive_patient_data"

\* C2: a record with no indicator, no clinical-output key and no metadata key
\* classifies as unknown, can_store = false, retention_days = 0.
C2_DefaultDeny ==
    ( /\ last.op = "classify"
      /\ ~HasIndicator(last.record)
      /\ Keys(last.record) \cap (ClinicalNames \cup MetadataNames) = {} )
        => /\ last.result.data_type = "unknown"
           /\ last.result.can_store = FALSE
           /\ last.result.retention_days = 0

\* a non-empty record with none of the indicators was classified
C2_Witness ==
    /\ last.op = "classify"
    /\ last.record # <<>>
    /\ ~HasIndicator(last.record)
    /\ Keys(last.record) \cap (ClinicalNames \cup MetadataNames) = {}
    /\ last.result.data_type = "unknown"

\* C5: every classification has can_store => storable category and positive
\* retention; sensitive_patient_data or unknown => can_store false, retention 0.
C5_ClassificationInvariant ==
    last.op = "classify" =>
        /\ last.result.can_store =>
              /\ last.result.data_type \in {"clinical_output", "analysis_metadata"}
              /\ last.result.retention_days > 0
        /\ last.result.data_type \in {"sensitive_patient_data", "unknown"} =>
              /\ last.result.can_store = FALSE
              /\ last.result.retention_days = 0

\* a record was classified as analysis_metadata: storable, kept 90 days
C5_Witness ==
    /\ last.op = "classify"
    /\ last.result.can_store
    /\ last.result.data_type = "analysis_metadata"
    /\ last.result.retention_days = 90

\* the allow-list of the safe projection, as the specification lists it
AllowList ==
    { s_analysis_id, s_processing_time, s_model_used, s_confidence_score,
      s_urgency_level, s_care_level, s_risk_factors, s_recommendations }

\* C4 as stated: every key of the record outside the allow-list is absent from
\* the projection.
C4_Original ==
    last.op = "build" =>
        \A k \in Keys(last.record) : k \in DOMAIN last.result => k \in AllowList

\* C4 as amended: a projection's keys are allow-listed keys of the record, with
\* the record's value, or timestamp and data_hash, whose values the builder
\* generates (the creation time, the hash of the record) whatever the record
\* holds under those keys.
C4_OnlyAllowListCopied ==
    last.op = "build" =>
        \A k \in DOMAIN last.result :
            \/ /\ k \in AllowList
               /\ HasKey(last.record, k)
               /\ last.result[k] = Get(last.record, k)
            \/ k = s_timestamp /\ FromIsoFormat(last.result[k]) = clock
            \/ k = s_data_hash /\ last.result[k].kind = "sha256"

\* a record with an identifier-like key, a timestamp and an allow-listed field
\* was projected
C4_Witness ==
    /\ last.op = "build"
    /\ Len(last.record) = 2
    /\ Keys(last.record) \cap {k_patient_name, s_timestamp} # {}
    /\ s_urgency_level \in DOMAIN last.result

----------------------------------------------------------------------------
(* Claims about the storage manager (checked under Spec).                  *)

\* the storable categories and their retention windows, in days, as the
\* specification gives them
RetentionWindowDays == [clinical_output |-> 30, analysis_metadata |-> 90]

\* C3: a store of a record that classifies as sensitive_patient_data or unknown
\* returns no identifier and changes neither the files nor the audit logs; and
\* every file lies under clinical_output or analysis_metadata, never under a
\* category whose retention is 0.
C3_RejectedNeverStored ==
    /\ [][ ( /\ last'.op = "store"
             /\ Classification[last'.record].data_type
                    \in {"sensitive_patient_data", "unknown"} )
           => /\ last'.result = NoId
              /\ files' = files
              /\ audit_logs' = audit_logs ]_vars
    /\ [](\A path \in DOMAIN files :
              /\ path[1] \in DOMAIN RetentionWindowDays
              /\ retention_policies[path[1]] # 0)

\* a sensitive record was refused while an item was stored
C3_Witness ==
    /\ last.op = "store"
    /\ Classification[last.record].data_type = "sensitive_patient_data"
    /\ last.result = NoId
    /\ \E path \in DOMAIN files : files[path].complete

\* the classification fields the specification has the stored item embed
ClassificationFields ==
    { "can_store", "data_type", "sensitivity_level", "retention_days",
      "requires_consent", "audit_required", "reason" }

\* the classification fields store_analysis_result embeds
EmbeddedFields ==
    { "data_type", "sensitivity_level", "retention_days", "audit_required" }

\* the last call retrieved an item that a store returned the identifier of
RetrievedStored ==
    /\ last.op = "retrieve"
    /\ last.result.found
    /\ last.storage_id \in DOMAIN origin

Stored(fs, id) ==
    \E n \in 1..Len(Partitions) : get_storage_path(Partitions[n], id) \in DOMAIN fs

\* an identifier once generated and not stored is never stored again
StaysAbsent ==
    [][ \A id \in StorageIds \cup {FakeId} :
          (id \in CallIds /\ ~Stored(files, id)) => ~Stored(files', id) ]_vars

\* a retrieve finds only what is stored
RetrieveFindsStored ==
    (last.op = "retrieve" /\ ~Stored(files, last.storage_id))
        => ~last.result.found

Aged ==
    { path \in DOMAIN files :
        /\ path[1] \in DOMAIN RetentionWindowDays
        /\ files[path].complete
        /\ clock - FromIsoFormat(files[path].data[s_timestamp])
              > RetentionWindowDays[path[1]] * HoursPerDay }

\* C8: a sweep that meets no failure deletes exactly the items whose age, on the
\* clock their timestamp was taken from, exceeds the retention window of their
\* category, and returns their number.
C8_SweepExact ==
    [][ (last'.op = "cleanup" /\ last'.fail = "none")
          => /\ files' = [path \in DOMAIN files \ Aged |-> files[path]]
             /\ last'.result = Cardinality(Aged) ]_vars

\* on a host two hours east of UTC, a sweep run 30 days after the first store
\* deleted an item, when no item was older than 30 days
C8_Witness ==
    /\ last.op = "cleanup"
    /\ last.fail = "none"
    /\ utc_offset # 0
    /\ clock = 30 * HoursPerDay
    /\ last.result > 0

\* C9: store returns an identifier or none; it never raises to its caller,
\* whichever step of it fails.
C9_StoreNeverRaises ==
    last.op = "store" =>
        /\ ~last.raised
        /\ last.result \in StorageIds \cup {NoId}

\* a store whose item write failed returned no identifier
C9_Witness ==
    /\ last.op = "store"
    /\ last.fail \in {"item_open", "item_dump", "audit"}
    /\ failures > 0
    /\ last.result = NoId
    /\ ~last.raised

\* C10: a store that returns no identifier leaves the files as they were.
C10_AllOrNothing ==
    [][ (last'.op = "store" /\ last'.result = NoId) => files' = files ]_vars

\* a store returned no identifier and the file of that attempt is there
C10_Witness ==
    /\ last.op = "store"
    /\ last.result = NoId
    /\ Stored(files, issued)

----------------------------------------------------------------------------
(* Claims about the audit trail and the frame of retrieve, delete and the  *)
(* sweep (checked under Spec).                                             *)

\* C11: a failure of the audit write does not block the call: store still
\* returns the identifier, retrieve still returns the item, delete still
\* returns true.
C11_AuditFailureDoesNotBlock ==
    /\ (last.op = "store" /\ last.fail = "audit") => last.result # NoId
    /\ (last.op = "retrieve" /\ last.fail = "audit") => last.result.found
    /\ (last.op = "delete" /\ last.fail = "audit") => last.result = TRUE

\* a delete removed the item, its audit write failed, and it returned false
C11_Witness ==
    /\ last.op = "delete"
    /\ last.fail = "audit"
    /\ last.result = FALSE
    /\ last.storage_id \in DOMAIN origin
    /\ ~Stored(files, last.storage_id)

\* sequence s is an initial part of sequence t
IsPrefix(s, t) == Len(s) <= Len(t) /\ SubSeq(t, 1, Len(s)) = s

\* C12: the audit trail is append-only: in every step the entries of every day
\* are still there afterwards, unchanged and in the same order.
C12_AuditAppendOnly ==
    [][ \A day \in DOMAIN audit_logs :
          IsPrefix(EntriesOf(audit_logs, day), EntriesOf(audit_logs', day)) ]_vars

\* an item was stored and audited in the first hour, and a retrieve of it in
\* that hour left the day's audit file without an entry
C12_Witness ==
    /\ last.op = "retrieve"
    /\ last.fail = "audit"
    /\ last.storage_id \in DOMAIN origin
    /\ clock = 0
    /\ AuditFile \in DOMAIN audit_logs
    /\ EntriesOf(audit_logs, AuditFile) = <<>>

\* no step adds an entry to the audit logs `before` to give `after`
NothingAppended(before, after) ==
    \A day \in DOMAIN after :
        IsPrefix(EntriesOf(after, day), EntriesOf(before, day))

\* C15: a retrieve that returns an item appends exactly one audit entry, with
\* action retrieve, the identifier and the category the item was found under;
\* a retrieve that returns not-found appends no entry and changes no file.
C15_RetrieveAudit ==
    [][ last'.op = "retrieve" =>
          IF last'.result.found
          THEN LET before == EntriesOf(audit_logs, AuditFile)
                   after == EntriesOf(audit_logs', AuditFile)
               IN  /\ Len(after) = Len(before) + 1
                   /\ IsPrefix(before, after)
                   /\ after[Len(after)].action = "retrieve"
                   /\ after[Len(after)].storage_id = last'.storage_id
                   /\ after[Len(after)].data_type = FoundIn(last'.storage_id)
                   /\ \A day \in DOMAIN audit_logs' \ {AuditFile} :
                          /\ day \in DOMAIN audit_logs
                          /\ audit_logs'[day] = audit_logs[day]
          ELSE /\ files' = files
               /\ NothingAppended(audit_logs, audit_logs') ]_vars

\* an analysis_metadata item was retrieved and the audit log of the day ends
\* with the entry of that retrieve
C15_Witness ==
    /\ last.op = "retrieve"
    /\ last.result.found
    /\ LET entries == EntriesOf(audit_logs, AuditFile)
       IN  /\ entries # <<>>
           /\ entries[Len(entries)].action = "retrieve"
           /\ entries[Len(entries)].storage_id = last.storage_id
           /\ entries[Len(entries)].data_type = "analysis_metadata"

\* C16: a delete of an identifier that is not stored returns false, appends no
\* audit entry and leaves every file as it was.
C16_DeleteMissingIsNoOp ==
    [][ (last'.op = "delete" /\ ~Stored(files, last'.storage_id))
          => /\ last'.result = FALSE
             /\ files' = files
             /\ audit_logs' = audit_logs ]_vars

\* an identifier that was stored and is gone was deleted again, to no effect
C16_Witness ==
    /\ last.op = "delete"
    /\ last.fail = "none"
    /\ last.result = FALSE
    /\ last.storage_id \in DOMAIN origin
    /\ ~Stored(files, last.storage_id)

\* C17 as stated: a sweep that follows a sweep, with no store and no passing of
\* time in between, deletes nothing and returns 0.
C17_Original ==
    [][ (last.op = "cleanup" /\ last'.op = "cleanup")
          => /\ last'.result = 0
             /\ files' = files ]_vars

\* C17 as amended: a sweep that follows a sweep which met no failure, with no
\* store and no passing of time in between, deletes nothing and returns 0.
C17_SweepIdempotent ==
    [][ (last.op = "cleanup" /\ last.fail = "none" /\ last'.op = "cleanup")
          => /\ last'.result = 0
             /\ files' = files ]_vars

\* with no failure and no delete that removed anything, a stored item is gone
\* (swept) and the last sweep found nothing more to delete
C17_Witness ==
    /\ last.op = "cleanup"
    /\ last.fail = "none"
    /\ last.result = 0
    /\ failures = 0
    /\ \E id \in DOMAIN origin : ~Stored(files, id)
    /\ \A day \in DOMAIN audit_logs :
          \A n \in 1..Len(EntriesOf(audit_logs, day)) :
              EntriesOf(audit_logs, day)[n].action # "delete"

----------------------------------------------------------------------------
(* Claims about the request handlers (checked under Spec) and about the    *)
(* precondition of the builder (checked under SpecClassifier).             *)

\* C18: the handler reports 'stored' exactly when an identifier is returned,
\* 'rejected' exactly when the classifier refused the record, and 'error' when
\* a record the classifier allows fails to persist on a backend error.
C18_StatusReportsOutcome ==
    last.op = "store" =>
        LET status == storage_status(last)
            can_store == Classification[last.record].can_store
        IN  /\ status = "stored" <=> last.result # NoId
            /\ status = "rejected" <=> ~can_store
            /\ (can_store /\ last.result = NoId) => status = "error"

\* the item write of a storable record failed and the handler reports 'rejected'
C18_Witness ==
    /\ last.op = "store"
    /\ Classification[last.record].can_store
    /\ last.fail = "item_dump"
    /\ storage_status(last) = "rejected"

\* C19: the record of a processed clinical letter is stored: with no backend
\* failure the response has an identifier and storage_status 'stored'.
C19_LetterStored ==
    (last.op = "store" /\ last.record \in LetterRecords /\ last.fail = "none")
        => /\ last.result # NoId
           /\ storage_status(last) = "stored"

\* the record of a letter in which no NHS number was found was refused, with no
\* backend failure
C19_Witness ==
    /\ last.op = "store"
    /\ last.record \in LetterRecords
    /\ Get(last.record, s_nhs_number) = NoneValue
    /\ last.fail = "none"
    /\ failures = 0
    /\ last.result = NoId
    /\ storage_status(last) = "rejected"

\* C20: the builder produces a projection only for a record whose
\* classification is storable.
C20_BuildRequiresStorable ==
    last.op = "build" => classify_analysis_data(last.record).can_store

\* a projection with urgency_level was built from a record with an identifier
C20_Witness ==
    /\ last.op = "build"
    /\ contains_sensitive_data(last.record)
    /\ ~classify_analysis_data(last.record).can_store
    /\ s_urgency_level \in DOMAIN last.result

----------------------------------------------------------------------------
(* Claims about concurrent calls (checked under SpecConcurrent).           *)

\* the audit logs hold an entry of the action for the identifier
HasAuditEntry(action, storage_id) ==
    \E day \in DOMAIN audit_logs :
        \E n \in 1..Len(EntriesOf(audit_logs, day)) :
            /\ EntriesOf(audit_logs, day)[n].action = action
            /\ EntriesOf(audit_logs, day)[n].storage_id = storage_id

\* data is the whole item stored under the identifier: every field of the
\* projection of the record it was stored from, the identifier and the
\* embedded classification
CompleteItem(data, storage_id) ==
    /\ storage_id \in DOMAIN origin
    /\ LET record == origin[storage_id]
           projection == create_safe_storage_data(record, 0)
       IN  /\ DOMAIN data = DOMAIN projection \cup {s_storage_id, s_classification}
           /\ \A k \in DOMAIN projection \ {s_timestamp} : data[k] = projection[k]
           /\ data[s_storage_id].id = storage_id
           /\ data[s_classification] = EmbeddedClassification(Classification[record])

\* both threads ran a store and both stores returned an identifier
BothStored ==
    \A t \in Threads :
        /\ calls[t].pc = "done"
        /\ calls[t].op = "store"
        /\ calls[t].result # NoId

\* C13: once two concurrent stores have both returned identifiers, both items
\* are retrievable with their own content and the audit trail has a store
\* entry for each of the two identifiers.
C13_ConcurrentStoresSafe ==
    BothStored =>
        \A t \in Threads :
            LET storage_id == calls[t].result
                read == read_data(get_storage_path(calls[t].data_type, storage_id))
            IN  /\ ~read.raised
                /\ CompleteItem(read.data, storage_id)
                /\ HasAuditEntry("store", storage_id)

\* two concurrent stores returned their identifiers, both items are there, and
\* the audit log of the day holds one entry
C13_Witness ==
    /\ BothStored
    /\ \A t \in Threads : Stored(files, calls[t].result)
    /\ Len(EntriesOf(audit_logs, AuditFile)) = 1

\* C14: a retrieve that runs concurrently with a delete or a sweep returns the
\* complete stored item or not-found, and never raises to its caller.
C14_RetrieveNeverPartial ==
    \A t \in Threads :
        (calls[t].pc = "done" /\ calls[t].op = "retrieve") =>
            /\ ~calls[t].raised
            /\ \/ calls[t].result = NotFound
               \/ /\ calls[t].result.found
                  /\ CompleteItem(calls[t].result.data, calls[t].storage_id)

\* a retrieve found the file, a concurrent sweep removed it before the read,
\* and the retrieve returned not-found
C14_Witness ==
    \E t, u \in Threads :
        /\ calls[t].pc = "done"
        /\ calls[t].op = "retrieve"
        /\ calls[t].data_type # "nowhere"
        /\ calls[t].result = NotFound
        /\ calls[u].pc # "idle"
        /\ calls[u].op = "cleanup"
        /\ ~Stored(files, calls[t].storage_id)


\* thread t has called classify_analysis_data and has its result
Classified(t) == calls[t].pc = "done" /\ calls[t].op = "classify"

----------------------------------------------------------------------------
(* Claims about the decision order of the classifier (checked under        *)
(* SpecClassifier).                                                        *)

\* C23: for a record with no sensitivity indicator, a clinical-output field
\* name among the keys gives clinical_output / low / can_store / 30 days /
\* audit required, even when metadata field names are keys as well; otherwise a
\* metadata field name among the keys gives analysis_metadata / none /
\* can_store / 90 days / no audit.
C23_FirstMatchOrder ==
    (last.op = "classify" /\ ~HasIndicator(last.record)) =>
        IF Keys(last.record) \cap ClinicalNames # {}
        THEN /\ last.result.data_type = "clinical_output"
             /\ last.result.sensitivity_level = "low"
             /\ last.result.can_store = TRUE
             /\ last.result.retention_days = 30
             /\ last.result.audit_required = TRUE
        ELSE Keys(last.record) \cap MetadataNames # {} =>
             /\ last.result.data_type = "analysis_metadata"
             /\ last.result.sensitivity_level = "none"
             /\ last.result.can_store = TRUE
             /\ last.result.retention_days = 90
             /\ last.result.audit_required = FALSE

\* a record with a clinical-output key and a metadata key, and no indicator,
\* was classified as clinical_output
C23_Witness ==
    /\ last.op = "classify"
    /\ ~HasIndicator(last.record)
    /\ Keys(last.record) \cap ClinicalNames # {}
    /\ Keys(last.record) \cap MetadataNames # {}
    /\ last.result.data_type = "clinical_output"
    /\ last.result.retention_days = 30


----------------------------------------------------------------------------
(* Claims about the result of delete, the layout and the content of the    *)
(* stored items, and the audit of removals (checked under Spec).           *)

\* C25: delete returns true if and only if the call removed the stored item,
\* whichever of its backend steps fails.
C25_DeleteReportsRemoval ==
    [][ last'.op = "delete" => (last'.result = TRUE <=> files' # files) ]_vars

\* a delete unlinked the item of a stored identifier, tore the audit file of
\* the day on its way out, and returned false
C25_Witness ==
    /\ last.op = "delete"
    /\ last.result = FALSE
    /\ last.fail = "audit"
    /\ last.storage_id \in DOMAIN origin
    /\ FoundIn(last.storage_id) = "nowhere"
    /\ AuditFile \in DOMAIN audit_logs
    /\ ~audit_logs[AuditFile].complete

\* C28: every stored item lies in the directory its embedded classification
\* names, embeds the identifier it is stored under, and embeds the retention
\* days that the storage manager's policy gives for that directory.
C28_ItemMatchesPartition ==
    \A path \in DOMAIN files :
        files[path].complete =>
            LET data == files[path].data
            IN  /\ data[s_classification].data_type = path[1]
                /\ data[s_storage_id].id = path[2]
                /\ data[s_classification].retention_days = retention_policies[path[1]]
                /\ retention_policies[path[1]] = RetentionWindowDays[path[1]]

\* a clinical_output item and an analysis_metadata item are stored
C28_Witness ==
    \E p, q \in DOMAIN files :
        /\ files[p].complete /\ p[1] = "clinical_output"
        /\ files[p].data[s_classification].retention_days = 30
        /\ files[q].complete /\ q[1] = "analysis_metadata"
        /\ files[q].data[s_classification].retention_days = 90

\* the last call stored an item: the path of its file
LastStoredPath ==
    get_storage_path(Classification[last.record].data_type, last.result)

\* C29: the classifier's sensitivity scan, applied to the item a store has just
\* persisted (all of its entries), reports nothing; and no step changes an item
\* that is stored, so no stored item ever holds a sensitivity indicator.
C29_StoredItemsClean ==
    /\ []( (last.op = "store" /\ last.result # NoId)
              => /\ LastStoredPath \in DOMAIN files
                 /\ files[LastStoredPath].complete
                 /\ DOMAIN files[LastStoredPath].data
                        \subseteq {StoredKeys[i] : i \in 1..Len(StoredKeys)}
                 /\ ~contains_sensitive_data(StoredDict(files[LastStoredPath].data)) )
    /\ [][ \A path \in DOMAIN files \cap DOMAIN files' :
               files[path].complete => files'[path] = files[path] ]_vars

\* an item with urgency_level and the embedded classification was stored from a
\* record that has a None field, and the scan of the item finds nothing
C29_Witness ==
    /\ last.op = "store"
    /\ last.result # NoId
    /\ Get(last.record, s_model_used) = NoneValue
    /\ s_urgency_level \in DOMAIN files[LastStoredPath].data
    /\ s_classification \in DOMAIN files[LastStoredPath].data
    /\ ~contains_sensitive_data(StoredDict(files[LastStoredPath].data))

\* C30: every identifier that a store returned and whose item is no longer
\* present has a delete entry in the audit trail.
C30_RemovalsAudited ==
    \A storage_id \in DOMAIN origin :
        ~Stored(files, storage_id) => HasAuditEntry("delete", storage_id)

\* with no failure at all, a sweep removed a stored item and the audit trail
\* has its store entry and no delete entry
C30_Witness ==
    /\ last.op = "cleanup"
    /\ last.result > 0
    /\ failures = 0
    /\ \E storage_id \in DOMAIN origin :
          /\ ~Stored(files, storage_id)
          /\ HasAuditEntry("store", storage_id)
          /\ ~HasAuditEntry("delete", storage_id)


----------------------------------------------------------------------------
(* Claims about the cloud backend (checked under SpecAws).                 *)

\* the fields of a statistics record
StatsFields == {"total_files", "data_types", "total_size_bytes"}

\* C22: stats never raises and changes neither the stored items nor the audit
\* trail; when a listing or a size lookup fails it still returns a statistics
\* record, with zero or partial counts and total size.
C22_StatsTolerates ==
    /\ []( last.op = "stats" =>
              /\ ~last.raised
              /\ StatsFields \subseteq DOMAIN last.result )
    /\ [][ last'.op = "stats" =>
              /\ files' = files
              /\ audit_logs' = audit_logs
              /\ table' = table ]_vars

\* with an object in the bucket, the listing failed on the connection and
\* stats returned a record that has an error and no count
C22_Witness ==
    /\ last.op = "stats"
    /\ last.fail = "s3_error"
    /\ files # EmptyMap
    /\ "error" \in DOMAIN last.result
    /\ "total_files" \notin DOMAIN last.result

\* a step writes a store entry for the identifier into the audit trail
StoreEntryWritten(storage_id) ==
    /\ ~HasAuditEntry("store", storage_id)
    /\ HasAuditEntry("store", storage_id)'

\* the store appended one entry to the audit log of the day, carrying its
\* identifier and the category of the item
OneStoreEntryAppended ==
    LET before == EntriesOf(audit_logs, AuditFile)
        after == EntriesOf(audit_logs', AuditFile)
    IN  /\ Len(after) = Len(before) + 1
        /\ IsPrefix(before, after)
        /\ after[Len(after)].action = "store"
        /\ after[Len(after)].storage_id = last'.result
        /\ after[Len(after)].data_type = Classification[last'.record].data_type

\* the item of the identifier is persisted: its object and its table item
Persisted(fs, tb, storage_id) == Stored(fs, storage_id) /\ storage_id \in DOMAIN tb

\* C24 as stated: every store that returns an identifier has persisted the item
\* and appends exactly one store entry with the identifier and the category;
\* and a store entry is only ever written for an identifier whose item is
\* persisted by then.
C24_Original ==
    [][ /\ (last'.op = "store" /\ last'.result # NoId)
            => /\ Persisted(files', table', last'.result)
               /\ OneStoreEntryAppended
        /\ \A storage_id \in StorageIds :
              StoreEntryWritten(storage_id) => Persisted(files', table', storage_id)
      ]_vars

\* C24 as amended: every store that returns an identifier has persisted the
\* item and, unless its audit write failed, appends exactly one store entry
\* with the identifier and the category; and a store entry is only ever written
\* for an identifier whose item is persisted by then.
C24_PersistBeforeAudit ==
    [][ /\ (last'.op = "store" /\ last'.result # NoId)
            => /\ Persisted(files', table', last'.result)
               /\ last'.fail \notin AwsAuditFailures => OneStoreEntryAppended
        /\ \A storage_id \in StorageIds :
              StoreEntryWritten(storage_id) => Persisted(files', table', storage_id)
      ]_vars

\* a store returned its identifier, its item is persisted, the write of the
\* audit object failed, and the audit trail has no store entry for it
C24_Witness ==
    /\ last.op = "store"
    /\ last.result # NoId
    /\ last.fail = "audit_put"
    /\ Persisted(files, table, last.result)
    /\ ~HasAuditEntry("store", last.result)

\* C26: an item's object is in the bucket if and only if its item is in the
\* table, and a store that returns no identifier leaves neither behind.
C26_ObjectAndItemConsistent ==
    /\ [](\A storage_id \in StorageIds :
              Stored(files, storage_id) <=> storage_id \in DOMAIN table)
    /\ [][ (last'.op = "store" /\ last'.result = NoId)
              => /\ files' = files
                 /\ table' = table ]_vars

\* a store returned no identifier after put_item failed, and the object of
\* that attempt is in the bucket with no item in the table
C26_Witness ==
    /\ last.op = "store"
    /\ last.result = NoId
    /\ last.fail = "dynamodb_put"
    /\ Stored(files, issued)
    /\ issued \notin DOMAIN table


----------------------------------------------------------------------------
(* Claims about the storage identifiers (checked under SpecIds).           *)

\* C27 as stated: the identifier a store returns is the identifier of no item
\* that is stored, in either category, and of no earlier store.
C27_Original ==
    [][ last'.op = "store" =>
           /\ ~Stored(files, last'.result)
           /\ last'.result \notin DOMAIN origin ]_vars

\* C27 as amended: the identifier a store returns is the identifier of no item
\* stored in an earlier second, in either category: an item that is stored
\* under it was created in the second of this store.
C27_FreshAcrossSeconds ==
    [][ last'.op = "store" =>
           \A n \in 1..Len(Partitions) :
               LET path == get_storage_path(Partitions[n], last'.result)
               IN  path \in DOMAIN files =>
                       FromIsoFormat(files[path].data[s_timestamp]) = UtcNow ]_vars

\* two stores ran in the same second and drew the same hex digits: the second
\* returned the identifier of the first and one file is left
C27_Witness ==
    /\ last.op = "store"
    /\ issued = 2
    /\ Cardinality(DOMAIN files) = 1
    /\ Cardinality(DOMAIN origin) = 1
    /\ Stored(files, last.result)

====
